---------------------------- MODULE Spec2Model ----------------------------
(*
  A model of the ChaCha stream cipher adapter (package chacha, amd64 build)
  and of the ChaCha20-Poly1305 AEAD built on it (package chacha20).

  Bytes are 0..255.  A uint32 is a pair <<lo, hi>> of 16-bit halves, so that
  additions modulo 2^32 stay inside the checker's integers.  A byte slice is
  a sequence of bytes; a slice with spare capacity is a record
  [arr, len] of its backing array (Len(arr) = cap) and its length.
*)
EXTENDS Integers, Sequences, FiniteSets, TLC

VARIABLES
    cx,        \* the cx register the CPUID instruction returned on this machine
    avx2,      \* what supportAVX2() returned on this machine (0 or 1)
    useSSSE3,  \* package variable chacha.useSSSE3
    useAVX2,   \* package variable chacha.useAVX2
    call,      \* the call of a chacha-level function in progress
    ret,       \* what that call returned
    handle,    \* the shared *aead handle: [key, tagsize]
    callers,   \* the goroutines that use the handle
    universe,  \* the inputs the callers draw from
    proc       \* per caller: the Seal or Open call in progress and its locals

vars == <<cx, avx2, useSSSE3, useAVX2, call, ret, handle, callers, universe, proc>>

-----------------------------------------------------------------------------
(* Bounds of the model *)

\* XORKeyStream is called on lengths 0, 1 and 64k-1, 64k, 64k+1 for k up to MaxBlocks
MaxBlocks == 2

\* Seal is called on plaintexts of 0 and 3 bytes and of 64k+1 bytes for k up to
\* MaxPtBlocks
MaxPtBlocks == 1

-----------------------------------------------------------------------------
(* Bytes and 32-bit words *)

Min(a, b) == IF a < b THEN a ELSE b

RECURSIVE BitXor(_, _, _)
BitXor(a, b, n) ==
    IF n = 0 THEN 0
    ELSE ((a + b) % 2) + (2 * BitXor(a \div 2, b \div 2, n - 1))

XorTable == [a \in 0..15 |-> [b \in 0..15 |-> BitXor(a, b, 4)]]

\* a ^ b on bytes
Xor8(a, b) == (16 * XorTable[a \div 16][b \div 16]) + XorTable[a % 16][b % 16]

Xor16(a, b) == (256 * Xor8(a \div 256, b \div 256)) + Xor8(a % 256, b % 256)

\* the uint32 of a small natural number
U32(n) == <<n % 65536, n \div 65536>>

Add32(a, b) ==
    LET lo == a[1] + b[1]
        hi == a[2] + b[2] + (lo \div 65536)
    IN  <<lo % 65536, hi % 65536>>

Xor32(a, b) == <<Xor16(a[1], b[1]), Xor16(a[2], b[2])>>

RECURSIVE Pow2(_)
Pow2(k) == IF k = 0 THEN 1 ELSE 2 * Pow2(k - 1)

\* a <<< k for k in 1..16
Rotl32(a, k) ==
    IF k = 16 THEN <<a[2], a[1]>>
    ELSE LET p == Pow2(k)
             q == Pow2(16 - k)
         IN  << ((a[1] * p) % 65536) + (a[2] \div q),
                ((a[2] * p) % 65536) + (a[1] \div q) >>

\* the little-endian uint32 at word index i (from 0) of a byte array
WordAt(s, i) ==
    << s[(4 * i) + 1] + (256 * s[(4 * i) + 2]),
       s[(4 * i) + 3] + (256 * s[(4 * i) + 4]) >>

\* the four little-endian bytes of a uint32
WordBytes(w) == <<w[1] % 256, w[1] \div 256, w[2] % 256, w[2] \div 256>>

\* a function on 1..n as the sequence of its values
AsSeq(f) == f \o <<>>

\* F(e), with e evaluated once
With(e, F(_)) == CHOOSE r \in {F(v) : v \in {e}} : TRUE

Zeros(n) == AsSeq([i \in 1..n |-> 0])

-----------------------------------------------------------------------------
(* State Builder and Round Engine: the assembly behind setState, coreSSE2,
   coreSSSE3, xorBlocksSSE2, xorBlocksSSSE3 and xorBlocksAVX2 *)

\* "expand 32-byte k"
Sigma == <<101, 120, 112, 97, 110, 100, 32, 51, 50, 45, 98, 121, 116, 101, 32, 107>>

\* words 0-3 the constant, 4-11 the key, 12 the counter, 13-15 the nonce
setState(key, nonce, counter) == Sigma \o key \o WordBytes(counter) \o nonce

\* word 12 of a state
CounterOf(state) == WordAt(state, 12)

\* the state with its counter word incremented, modulo 2^32
IncCounter(state) ==
    With(WordBytes(Add32(CounterOf(state), U32(1))), LAMBDA c :
        AsSeq([i \in 1..64 |-> IF i \in 49..52 THEN c[i - 48] ELSE state[i]]))

\* a += b; d ^= a; d <<<= k on t = <<a, b, c, d>>
MixAD(t, k) ==
    <<Add32(t[1], t[2]), t[2], t[3], Rotl32(Xor32(t[4], Add32(t[1], t[2])), k)>>

\* c += d; b ^= c; b <<<= k on t = <<a, b, c, d>>
MixCB(t, k) ==
    <<t[1], Rotl32(Xor32(t[2], Add32(t[3], t[4])), k), Add32(t[3], t[4]), t[4]>>

QuarterRound(t) ==
    With(MixAD(t, 16), LAMBDA t1 :
    With(MixCB(t1, 12), LAMBDA t2 :
    With(MixAD(t2, 8), LAMBDA t3 : MixCB(t3, 7))))

\* the quarter round on the words q of x
QR(x, q) ==
    With(QuarterRound(<<x[q[1]], x[q[2]], x[q[3]], x[q[4]]>>), LAMBDA r :
        [x EXCEPT ![q[1]] = r[1], ![q[2]] = r[2], ![q[3]] = r[3], ![q[4]] = r[4]])

\* the four columns, then the four diagonals (word indices from 1)
Quads ==
    << <<1, 5, 9, 13>>, <<2, 6, 10, 14>>, <<3, 7, 11, 15>>, <<4, 8, 12, 16>>,
       <<1, 6, 11, 16>>, <<2, 7, 12, 13>>, <<3, 8, 9, 14>>, <<4, 5, 10, 15>> >>

\* the first n quarter rounds of a double round
RECURSIVE QuarterRounds(_, _)
QuarterRounds(x, n) ==
    IF n = 0 THEN x
    ELSE With(QuarterRounds(x, n - 1), LAMBDA y : QR(y, Quads[n]))

\* one column round, then one diagonal round
DoubleRound(x) == QuarterRounds(x, 8)

RECURSIVE Permute(_, _)
Permute(x, rounds) ==
    IF rounds <= 0 THEN x
    ELSE With(Permute(x, rounds - 2), LAMBDA y : DoubleRound(y))

\* the 64-byte keystream block of a state: rounds/2 double rounds, feed-forward,
\* little-endian serialisation
KeystreamBlock(state, rounds) ==
    With(AsSeq([i \in 1..16 |-> WordAt(state, i - 1)]), LAMBDA x :
    With(Permute(x, rounds), LAMBDA y :
    With(AsSeq([i \in 1..16 |-> WordBytes(Add32(y[i], x[i]))]), LAMBDA z :
        AsSeq([i \in 1..64 |-> z[((i - 1) \div 4) + 1][((i - 1) % 4) + 1]]))))

\* one block generated from the state; the state's counter is incremented
coreSSE2(state, rounds) ==
    [block |-> KeystreamBlock(state, rounds),
     state |-> IncCounter(state),
     used  |-> <<CounterOf(state)>>]

coreSSSE3(state, rounds) == coreSSE2(state, rounds)

\* dst with the bytes of block number b (from 0) set to src XOR block
XorBlockInto(dst, src, block, b) ==
    AsSeq([i \in 1..Len(dst) |->
        IF i > 64 * b /\ i <= 64 * (b + 1) THEN Xor8(src[i], block[i - (64 * b)])
        ELSE dst[i]])

\* full block number b (from 0) of src crypted into r.dst with r.state, whose
\* counter is then incremented
BlockStep(r, src, rounds, b) ==
    With(KeystreamBlock(r.state, rounds), LAMBDA block :
        [dst |-> XorBlockInto(r.dst, src, block, b),
         state |-> IncCounter(r.state),
         used |-> Append(r.used, CounterOf(r.state))])

\* the first n full blocks of src crypted into dst, one counter per block
RECURSIVE BlocksUpTo(_, _, _, _, _)
BlocksUpTo(dst, src, state, rounds, n) ==
    IF n = 0 THEN [dst |-> dst, state |-> state, used |-> <<>>]
    ELSE With(BlocksUpTo(dst, src, state, rounds, n - 1), LAMBDA r :
            BlockStep(r, src, rounds, n - 1))

xorBlocksSSE2(dst, src, state, rounds) ==
    BlocksUpTo(dst, src, state, rounds, Len(src) \div 64)

xorBlocksSSSE3(dst, src, state, rounds) == xorBlocksSSE2(dst, src, state, rounds)

xorBlocksAVX2(dst, src, state, rounds) == xorBlocksSSE2(dst, src, state, rounds)

-----------------------------------------------------------------------------
(* package chacha: capability probing and dispatch *)

\* bit k of a non-negative integer
Bit(n, k) == (n \div Pow2(k)) % 2

\* ((cx & 1) != 0) && ((cx & 0x200) != 0)
supportSSSE3(c) == (Bit(c, 0) # 0) /\ (Bit(c, 9) # 0)

\* supportAVX2() == 1 && false
\* the initialiser of useAVX2 without its trailing "&& false"
InitUseAVX2Enabled(a) == a = 1

InitUseAVX2(a) == (a = 1) /\ FALSE

\* the engine xorBlocks runs for a source of the given length
xorBlocksVariant(srcLen) ==
    IF useAVX2 /\ srcLen >= 128 THEN "AVX2"
    ELSE IF useSSSE3 THEN "SSSE3"
    ELSE "SSE2"

xorBlocks(dst, src, state, rounds) ==
    With(xorBlocksVariant(Len(src)), LAMBDA v :
    With(IF v = "AVX2" THEN xorBlocksAVX2(dst, src, state, rounds)
         ELSE IF v = "SSSE3" THEN xorBlocksSSSE3(dst, src, state, rounds)
         ELSE xorBlocksSSE2(dst, src, state, rounds), LAMBDA r :
        [dst |-> r.dst, state |-> r.state, used |-> r.used, variant |-> v]))

\* the engine Core runs
CoreVariant == IF useSSSE3 THEN "SSSE3" ELSE "SSE2"

Core(state, rounds) ==
    With(IF useSSSE3 THEN coreSSSE3(state, rounds) ELSE coreSSE2(state, rounds),
         LAMBDA r : [block |-> r.block, state |-> r.state, used |-> r.used,
                     variant |-> CoreVariant])

\* x & ^(m - 1) for a power of two m and x >= 0
AndNot(x, m) == (x \div m) * m

\* xor with the byte loop after the word loop left out
xorWordsOnly(dst, src, with) ==
    With(Min(Len(src), Len(with)), LAMBDA n :
        AsSeq([i \in 1..Len(dst) |->
            IF i <= 8 * (n \div 8) THEN Xor8(with[i], src[i]) ELSE dst[i]]))

\* xor: dst[i] = src[i] ^ with[i] for i < min(len(src), len(with)), by 8-byte
\* words first and then the remaining bytes
xor(dst, src, with) ==
    With(Min(Len(src), Len(with)), LAMBDA n :
    With(AsSeq([i \in 1..Len(dst) |->
            IF i <= 8 * (n \div 8) THEN Xor8(with[i], src[i]) ELSE dst[i]]),
         LAMBDA words :
        AsSeq([i \in 1..Len(dst) |->
            IF i > AndNot(n, 8) /\ i <= n THEN Xor8(src[i], with[i]) ELSE words[i]])))

Drop(s, n) == SubSeq(s, n + 1, Len(s))

Take(s, n) == SubSeq(s, 1, n)

Panic(msg) == [status |-> "panic", msg |-> msg]

\* the part of XORKeyStream after the full blocks: the tail of length - n bytes
XORKeyStreamTail(full, src, rounds, n) ==
    IF Len(src) - n > 0
    THEN With(Core(full.state, rounds), LAMBDA c :
            [status |-> "ok",
             dst |-> Take(full.dst, n) \o xor(Drop(full.dst, n), Drop(src, n), c.block),
             used |-> full.used \o c.used,
             variant |-> full.variant, core |-> c.variant])
    ELSE [status |-> "ok", dst |-> full.dst, used |-> full.used,
          variant |-> full.variant, core |-> "none"]

\* what XORKeyStream leaves on a valid call: the bytes of dst, the counters of
\* the blocks it generated, and the engines it ran
XORKeyStreamBody(dst, src, nonce, key, counter, rounds) ==
    With(setState(key, nonce, counter), LAMBDA state :
    With(IF Len(src) >= 64
         THEN xorBlocks(dst, src, state, rounds)
         ELSE [dst |-> dst, state |-> state, used |-> <<>>, variant |-> "none"],
         LAMBDA full : XORKeyStreamTail(full, src, rounds, AndNot(Len(src), 64))))

\* the checks of XORKeyStream, and then its body on the two buffers
XORKeyStreamChecked(dst, src, nonce, key, counter, rounds) ==
    IF Len(dst) < Len(src) THEN Panic("chacha20/chacha: dst buffer is to small")
    ELSE IF rounds <= 0 \/ rounds % 2 # 0
    THEN Panic("chacha20/chacha: rounds must be a multiple of 2")
    ELSE XORKeyStreamBody(dst, src, nonce, key, counter, rounds)

XORKeyStream(dst, src, nonce, key, counter, rounds) ==
    With(dst, LAMBDA d : With(src, LAMBDA b :
        XORKeyStreamChecked(d, b, nonce, key, counter, rounds)))

\* NewCipher with a check that lets odd round counts through
NewCipherAnyPositive(nonce, key, rounds) ==
    IF rounds <= 0
    THEN Panic("chacha20/chacha: rounds must be a multiply of 2")
    ELSE [status |-> "ok",
          cipher |-> [rounds |-> rounds, state |-> setState(key, nonce, U32(0))]]

\* the Cipher handle: a state and a round count
NewCipher(nonce, key, rounds) ==
    IF rounds <= 0 \/ rounds % 2 # 0
    THEN Panic("chacha20/chacha: rounds must be a multiply of 2")
    ELSE [status |-> "ok",
          cipher |-> [rounds |-> rounds, state |-> setState(key, nonce, U32(0))]]

-----------------------------------------------------------------------------
(* The collaborators of package chacha20: the poly1305 MAC and
   subtle.ConstantTimeCompare *)

\* The MAC is used as a black box: New(key), Write(bytes)..., Sum(out).  Its
\* tag is a function of the key and of the bytes written, in order; this one
\* evaluates a polynomial in a key-derived point over the 16-byte chunks.
MacPrime == 32749

MacChunkTerm(msg, c, k) ==
    IF (16 * (c - 1)) + k <= Len(msg) THEN (msg[(16 * (c - 1)) + k] + 1) * (k + c) ELSE 0

RECURSIVE MacChunk(_, _, _)
MacChunk(msg, c, k) ==
    IF k = 0 THEN 0 ELSE MacChunkTerm(msg, c, k) + MacChunk(msg, c, k - 1)

MacPoint(key) == 1 + ((key[1] + (256 * key[2])) % (MacPrime - 1))

RECURSIVE MacAcc(_, _, _)
MacAcc(msg, r, c) ==
    IF c = 0 THEN 1
    ELSE With(MacAcc(msg, r, c - 1), LAMBDA acc :
            (((acc + MacChunk(msg, c, 16)) % MacPrime) * r) % MacPrime)

Poly1305Sum(key, msg) ==
    With(msg, LAMBDA m :
    With(MacAcc(m, MacPoint(key), (Len(m) + 15) \div 16), LAMBDA acc :
        AsSeq([j \in 1..16 |-> ((acc * j) + (acc \div 256) + key[16 + j]) % 256])))

\* 1 if the two slices have equal contents, 0 otherwise
ConstantTimeCompare(x, y) ==
    IF Len(x) # Len(y) THEN 0 ELSE IF x = y THEN 1 ELSE 0

-----------------------------------------------------------------------------
(* package chacha20: the AEAD *)

NonceSize == 12

TagSize == 16

errAuthFailed == "authentication failed"

errInvalidNonceSize == "nonce size is invalid"

NewChaCha20Poly1305(key) == [key |-> key, tagsize |-> TagSize]

NewChaCha20Poly1305WithTagSize(key, tagsize) ==
    IF tagsize < 1 \/ tagsize > TagSize
    THEN [status |-> "error", err |-> "tag size must be between 1 and 16"]
    ELSE [status |-> "ok", aead |-> [key |-> key, tagsize |-> tagsize]]

\* byte(n >> (8 * k))
RECURSIVE ShiftedByte(_, _)
ShiftedByte(n, k) == IF k = 0 THEN n % 256 ELSE ShiftedByte(n \div 256, k - 1)

\* the 16-byte trailer: adLen and then ctLen, each as 8 little-endian bytes
LengthBlock(adLen, ctLen) ==
    AsSeq([i \in 1..16 |->
        IF i <= 8 THEN ShiftedByte(adLen, i - 1) ELSE ShiftedByte(ctLen, i - 9)])

\* authenticate with a padding written whatever the length: 16 zero bytes after
\* a part whose length is a multiple of 16
MacWritesAlwaysPad(ciphertext, additionalData) ==
    additionalData
    \o Zeros(16 - (Len(additionalData) % TagSize))
    \o ciphertext
    \o Zeros(16 - (Len(ciphertext) % TagSize))
    \o LengthBlock(Len(additionalData), Len(ciphertext))

\* the bytes authenticate writes to the MAC, in order
MacWrites(ciphertext, additionalData) ==
    additionalData
    \o (IF Len(additionalData) % TagSize > 0
        THEN Zeros(16 - (Len(additionalData) % TagSize)) ELSE <<>>)
    \o ciphertext
    \o (IF Len(ciphertext) % TagSize > 0
        THEN Zeros(16 - (Len(ciphertext) % TagSize)) ELSE <<>>)
    \o LengthBlock(Len(additionalData), Len(ciphertext))

\* the tag, and the bytes the MAC absorbed
authenticate(ciphertext, additionalData, key) ==
    With(ciphertext, LAMBDA ct : With(additionalData, LAMBDA ad :
    With(MacWrites(ct, ad), LAMBDA written :
        [tag |-> Poly1305Sum(key, written), macin |-> written])))

\* a slice is [arr, len]: the backing array from the slice's start (Len(arr) is
\* the capacity) and the length
NilSlice == [arr |-> <<>>, len |-> 0]

\* head holds in's bytes and n more; shared says that head is in's backing array
sliceForAppend(in, n) ==
    IF Len(in.arr) >= in.len + n
    THEN [head |-> Take(in.arr, in.len + n), shared |-> TRUE]
    ELSE [head |-> Take(in.arr, in.len) \o Zeros(n), shared |-> FALSE]

\* the caller's backing array after head, which may be that array, was written
WriteBack(mem, head, shared) ==
    IF shared THEN head \o Drop(mem, Len(head)) ELSE mem

\* var Nonce [12]byte; copy(Nonce[:], nonce)
NonceArray(nonce) == Take(nonce \o Zeros(NonceSize), NonceSize)

Returned(bytes, isNil, err) ==
    [status |-> "returned", ret |-> bytes, retNil |-> isNil, err |-> err]

\* Seal with a check that rejects only nonces that are too short
SealValidateShortOnly(h, c) ==
    IF Len(c.nonce) < NonceSize
    THEN [c EXCEPT !.pc = "done",
                   !.result = Panic("chacha20: " \o errInvalidNonceSize)]
    ELSE [c EXCEPT !.pc = "polykey"]

\* Seal, lines 177-179
SealValidateStep(h, c) ==
    IF Len(c.nonce) # NonceSize
    THEN [c EXCEPT !.pc = "done",
                   !.result = Panic("chacha20: " \o errInvalidNonceSize)]
    ELSE [c EXCEPT !.pc = "polykey"]

\* Seal, lines 181-185
SealPolyKeyStep(h, c) ==
    With(XORKeyStream(Zeros(32), Zeros(32), NonceArray(c.nonce), h.key, U32(0), 20),
         LAMBDA r :
        [c EXCEPT !.pc = "encrypt",
                  !.polyKey = r.dst,
                  !.ks = Append(@, [use |-> "mackey", counters |-> r.used])])

\* Seal encrypting from the block that gave the MAC key
SealEncryptFromZero(h, c) ==
    With(sliceForAppend(c.dst, Len(c.in) + h.tagsize), LAMBDA sl :
    With(XORKeyStream(Drop(sl.head, c.dst.len), c.in, NonceArray(c.nonce), h.key,
                      U32(0), 20), LAMBDA r :
    With(Take(sl.head, c.dst.len) \o r.dst, LAMBDA head :
        [c EXCEPT !.pc = "auth",
                  !.head = head,
                  !.shared = sl.shared,
                  !.mem = WriteBack(@, head, sl.shared),
                  !.ks = Append(@, [use |-> "msg", counters |-> r.used])])))

\* Seal, lines 187-190
SealEncryptStep(h, c) ==
    With(sliceForAppend(c.dst, Len(c.in) + h.tagsize), LAMBDA sl :
    With(XORKeyStream(Drop(sl.head, c.dst.len), c.in, NonceArray(c.nonce), h.key,
                      U32(1), 20), LAMBDA r :
    With(Take(sl.head, c.dst.len) \o r.dst, LAMBDA head :
        [c EXCEPT !.pc = "auth",
                  !.head = head,
                  !.shared = sl.shared,
                  !.mem = WriteBack(@, head, sl.shared),
                  !.ks = Append(@, [use |-> "msg", counters |-> r.used])])))

\* Seal appending the whole 16-byte tag whatever the handle's tag size
SealAuthFullTag(h, c) ==
    With(Len(c.in), LAMBDA n :
    With(authenticate(SubSeq(c.head, c.dst.len + 1, c.dst.len + n), c.ad, c.polyKey),
         LAMBDA a :
    With(Take(c.head, c.dst.len + n) \o a.tag, LAMBDA head :
        [c EXCEPT !.pc = "done",
                  !.head = head,
                  !.mem = WriteBack(@, head, c.shared),
                  !.macin = a.macin,
                  !.result = Returned(head, FALSE, "none")])))

\* Seal, lines 192-197
SealAuthStep(h, c) ==
    With(Len(c.in), LAMBDA n :
    With(authenticate(SubSeq(c.head, c.dst.len + 1, c.dst.len + n), c.ad, c.polyKey),
         LAMBDA a :
    With(Take(c.head, c.dst.len + n) \o Take(a.tag, h.tagsize), LAMBDA head :
        [c EXCEPT !.pc = "done",
                  !.head = head,
                  !.mem = WriteBack(@, head, c.shared),
                  !.macin = a.macin,
                  !.result = Returned(head, FALSE, "none")])))

\* Open, lines 201-206
OpenValidateStep(h, c) ==
    IF Len(c.nonce) # NonceSize
    THEN [c EXCEPT !.pc = "done", !.result = Returned(<<>>, TRUE, errInvalidNonceSize)]
    ELSE IF Len(c.in) < h.tagsize
    THEN [c EXCEPT !.pc = "done", !.result = Returned(<<>>, TRUE, errAuthFailed)]
    ELSE [c EXCEPT !.pc = "polykey"]

\* Open, lines 208-212
OpenPolyKeyStep(h, c) ==
    With(XORKeyStream(Zeros(32), Zeros(32), NonceArray(c.nonce), h.key, U32(0), 20),
         LAMBDA r :
        [c EXCEPT !.pc = "verify",
                  !.polyKey = r.dst,
                  !.ks = Append(@, [use |-> "mackey", counters |-> r.used])])

\* Open going on to decrypt without looking at the comparison
OpenVerifyUnchecked(h, c) ==
    With(Len(c.in) - h.tagsize, LAMBDA n :
    With(authenticate(Take(c.in, n), c.ad, c.polyKey), LAMBDA a :
    With(ConstantTimeCompare(Take(a.tag, h.tagsize), Take(Drop(c.in, n), h.tagsize)),
         LAMBDA eq :
        [c EXCEPT !.pc = "decrypt", !.macin = a.macin, !.cmp = eq])))

\* Open comparing the whole 16-byte tag with the tagsize bytes it was given
OpenVerifyFullTag(h, c) ==
    With(Len(c.in) - h.tagsize, LAMBDA n :
    With(authenticate(Take(c.in, n), c.ad, c.polyKey), LAMBDA a :
    With(ConstantTimeCompare(a.tag, Take(Drop(c.in, n), h.tagsize)),
         LAMBDA eq :
        IF eq # 1
        THEN [c EXCEPT !.pc = "done", !.macin = a.macin, !.cmp = eq,
                       !.result = Returned(<<>>, TRUE, errAuthFailed)]
        ELSE [c EXCEPT !.pc = "decrypt", !.macin = a.macin, !.cmp = eq])))

\* Open, lines 214-221
OpenVerifyStep(h, c) ==
    With(Len(c.in) - h.tagsize, LAMBDA n :
    With(authenticate(Take(c.in, n), c.ad, c.polyKey), LAMBDA a :
    With(ConstantTimeCompare(Take(a.tag, h.tagsize), Take(Drop(c.in, n), h.tagsize)),
         LAMBDA eq :
        IF eq # 1
        THEN [c EXCEPT !.pc = "done", !.macin = a.macin, !.cmp = eq,
                       !.result = Returned(<<>>, TRUE, errAuthFailed)]
        ELSE [c EXCEPT !.pc = "decrypt", !.macin = a.macin, !.cmp = eq])))

\* Open, lines 223-227
OpenDecryptStep(h, c) ==
    With(Len(c.in) - h.tagsize, LAMBDA n :
    With(sliceForAppend(c.dst, n), LAMBDA sl :
    With(XORKeyStream(Drop(sl.head, c.dst.len), Take(c.in, n), NonceArray(c.nonce),
                      h.key, U32(1), 20), LAMBDA r :
    With(Take(sl.head, c.dst.len) \o r.dst, LAMBDA head :
        [c EXCEPT !.pc = "done",
                  !.head = head,
                  !.shared = sl.shared,
                  !.mem = WriteBack(@, head, sl.shared),
                  !.ks = Append(@, [use |-> "msg", counters |-> r.used]),
                  !.result = Returned(head, FALSE, "nil")]))))

-----------------------------------------------------------------------------
(* The machines the package runs on, and callers of the chacha-level functions *)

\* (cx after CPUID, supportAVX2()): no SSE3; SSE3 only; SSE3 and SSSE3; the
\* latter with AVX2.  Every x86 processor with SSSE3 has SSE3, and every one
\* with AVX2 has both.
Hardware == {<<0, 0>>, <<1, 0>>, <<513, 0>>, <<513, 1>>}

RfcKey == AsSeq([i \in 1..32 |-> i - 1])

RfcNonce == <<0, 0, 0, 9, 0, 0, 0, 74, 0, 0, 0, 0>>

OtherNonce == <<1, 2, 3, 4, 5, 6, 7, 8, 9, 10, 11, 12>>

SrcBytes(n) == AsSeq([i \in 1..n |-> ((37 * i) + 11) % 256])

DstFill(n) == AsSeq([i \in 1..n |-> 170])

Lengths == {0, 1} \cup UNION {{(64 * k) - 1, 64 * k, (64 * k) + 1} : k \in 1..MaxBlocks}

\* 0, 0x0000FFFF (the increment carries into the high half) and 0xFFFFFFFE
\* (the third block wraps to 0)
Counters == {<<0, 0>>, <<65535, 0>>, <<65534, 65535>>}

ValidRounds == {2, 8, 20}

InvalidRounds == {0, -2, 3, 7}

XorInputs ==
    {[len |-> l, slack |-> 0, counter |-> c, rounds |-> r] :
        l \in Lengths, c \in Counters, r \in ValidRounds}
    \cup {[len |-> 65, slack |-> 0, counter |-> <<0, 0>>, rounds |-> r] :
        r \in InvalidRounds}
    \cup {[len |-> l, slack |-> k, counter |-> <<0, 0>>, rounds |-> 2] :
        l \in {1, 65}, k \in {-1, 1, 70}}

Idle == [op |-> "idle"]

NoRet == [status |-> "none"]

NoHandle == [key |-> <<>>, tagsize |-> 0]

InitHardware ==
    /\ \E hw \in Hardware : cx = hw[1] /\ avx2 = hw[2]
    /\ useSSSE3 = supportSSSE3(cx)
    /\ useAVX2 = InitUseAVX2(avx2)

InitStream ==
    /\ InitHardware
    /\ call = Idle
    /\ ret = NoRet
    /\ handle = NoHandle
    /\ callers = {}
    /\ universe = "stream"
    /\ proc = <<>>

hwvars == <<cx, avx2, useSSSE3, useAVX2>>

aeadvars == <<handle, callers, universe, proc>>

InvokeXORKeyStream ==
    /\ call = Idle
    /\ \E in \in XorInputs :
          call' = [op |-> "XORKeyStream",
                   dst |-> DstFill(in.len + in.slack),
                   src |-> SrcBytes(in.len),
                   nonce |-> RfcNonce, key |-> RfcKey,
                   counter |-> in.counter, rounds |-> in.rounds]
    /\ UNCHANGED <<ret, hwvars, aeadvars>>

RunXORKeyStream ==
    /\ call.op = "XORKeyStream"
    /\ ret = NoRet
    /\ ret' = XORKeyStream(call.dst, call.src, call.nonce, call.key,
                           call.counter, call.rounds)
    /\ UNCHANGED <<call, hwvars, aeadvars>>

InvokeNewCipher ==
    /\ call = Idle
    /\ \E r \in ValidRounds \cup InvalidRounds, n \in {RfcNonce, OtherNonce} :
          call' = [op |-> "NewCipher", nonce |-> n, key |-> RfcKey, rounds |-> r]
    /\ UNCHANGED <<ret, hwvars, aeadvars>>

RunNewCipher ==
    /\ call.op = "NewCipher"
    /\ ret = NoRet
    /\ ret' = NewCipher(call.nonce, call.key, call.rounds)
    /\ UNCHANGED <<call, hwvars, aeadvars>>

\* the caller takes the result (or recovers from the panic) and goes on
Return ==
    /\ ret # NoRet
    /\ call' = Idle
    /\ ret' = NoRet
    /\ UNCHANGED <<hwvars, aeadvars>>

NextStream ==
    \/ InvokeXORKeyStream
    \/ RunXORKeyStream
    \/ InvokeNewCipher
    \/ RunNewCipher
    \/ Return

SpecStream == InitStream /\ [][NextStream]_vars

-----------------------------------------------------------------------------
(* Callers of authenticate *)

AuthLengths == {0, 1, 15, 16, 17, 31, 32, 33, 255, 256, 257}

AdBytes(n) == AsSeq([i \in 1..n |-> ((91 * i) + 5) % 256])

\* one machine: the AEAD does not depend on the engine chosen
InitOneMachine ==
    /\ cx = 513
    /\ avx2 = 1
    /\ useSSSE3 = supportSSSE3(cx)
    /\ useAVX2 = InitUseAVX2(avx2)

InitAuth ==
    /\ InitOneMachine
    /\ call = Idle
    /\ ret = NoRet
    /\ handle = NoHandle
    /\ callers = {}
    /\ universe = "auth"
    /\ proc = <<>>

InvokeAuthenticate ==
    /\ call = Idle
    /\ \E a \in AuthLengths, n \in AuthLengths :
          call' = [op |-> "authenticate", ciphertext |-> SrcBytes(n),
                   additionalData |-> AdBytes(a), key |-> RfcKey]
    /\ UNCHANGED <<ret, hwvars, aeadvars>>

RunAuthenticate ==
    /\ call.op = "authenticate"
    /\ ret = NoRet
    /\ ret' = authenticate(call.ciphertext, call.additionalData, call.key)
    /\ UNCHANGED <<call, hwvars, aeadvars>>

NextAuth ==
    \/ InvokeAuthenticate
    \/ RunAuthenticate
    \/ Return

SpecAuth == InitAuth /\ [][NextAuth]_vars

-----------------------------------------------------------------------------
(* Callers of Seal and Open on one shared handle *)

PtLengths == {0, 3} \cup {(64 * k) + 1 : k \in 1..MaxPtBlocks}

\* a caller's dst with two bytes in it and room for 78 more
PrefixSlice == [arr |-> <<200, 201>> \o DstFill(78), len |-> 2]

SealInputs(u) ==
    IF u = "aead"
    THEN {[dst |-> NilSlice, nonce |-> RfcNonce, pt |-> SrcBytes(l), ad |-> AdBytes(a)] :
            l \in PtLengths, a \in {0, 5}}
         \cup {[dst |-> PrefixSlice, nonce |-> RfcNonce, pt |-> SrcBytes(3),
                ad |-> AdBytes(16)]}
         \cup {[dst |-> PrefixSlice, nonce |-> n, pt |-> SrcBytes(3), ad |-> <<>>] :
                 n \in {Take(RfcNonce, 11), RfcNonce \o <<7>>}}
    ELSE {[dst |-> NilSlice, nonce |-> RfcNonce, pt |-> SrcBytes(3), ad |-> AdBytes(5)]}

NoSealed == [ok |-> FALSE, nonce |-> <<>>, pt |-> <<>>, ad |-> <<>>, out |-> <<>>]

FlipAt(b, i) == [b EXCEPT ![i] = Xor8(@, 1)]

\* what a caller passes to Open, given the last output x of Seal
OpenVariants(u, x) ==
    IF ~x.ok THEN {"garbage"}
    ELSE IF u = "aead"
    THEN {"exact", "exactcap", "flipct", "fliptag", "short", "otherad",
          "othernonce", "badnonce"}
    ELSE {"exact", "fliptag"}

OpenArgs(v, x, h) ==
    CASE v = "garbage" ->
            [dst |-> PrefixSlice, nonce |-> RfcNonce, in |-> <<1, 2, 3>>, ad |-> <<>>]
      [] v = "exact" ->
            [dst |-> NilSlice, nonce |-> x.nonce, in |-> x.out, ad |-> x.ad]
      [] v = "exactcap" ->
            [dst |-> PrefixSlice, nonce |-> x.nonce, in |-> x.out, ad |-> x.ad]
      [] v = "flipct" ->
            [dst |-> PrefixSlice, nonce |-> x.nonce, in |-> FlipAt(x.out, 1), ad |-> x.ad]
      [] v = "fliptag" ->
            [dst |-> PrefixSlice, nonce |-> x.nonce, in |-> FlipAt(x.out, Len(x.out)),
             ad |-> x.ad]
      [] v = "short" ->
            [dst |-> PrefixSlice, nonce |-> x.nonce, in |-> Take(x.out, h.tagsize - 1),
             ad |-> x.ad]
      [] v = "otherad" ->
            [dst |-> PrefixSlice, nonce |-> x.nonce, in |-> x.out, ad |-> x.ad \o <<9>>]
      [] v = "othernonce" ->
            [dst |-> PrefixSlice, nonce |-> OtherNonce, in |-> x.out, ad |-> x.ad]
      [] v = "badnonce" ->
            [dst |-> PrefixSlice, nonce |-> Take(x.nonce, 11), in |-> x.out, ad |-> x.ad]

\* a caller between calls; sealed is what its last Seal returned
IdleProc(x) ==
    [op |-> "none", pc |-> "idle", dst |-> NilSlice, nonce |-> <<>>, in |-> <<>>,
     ad |-> <<>>, polyKey |-> <<>>, head |-> <<>>, shared |-> FALSE, mem |-> <<>>,
     ks |-> <<>>, macin |-> <<>>, cmp |-> -1, result |-> NoRet, sealed |-> x]

Handles ==
    {NewChaCha20Poly1305(RfcKey)}
    \cup {r.aead : r \in {x \in {NewChaCha20Poly1305WithTagSize(RfcKey, t) : t \in 0..17} :
                            x.status = "ok"}}

InitAead ==
    /\ InitOneMachine
    /\ call = Idle
    /\ ret = NoRet
    /\ handle \in Handles
    /\ callers = {1}
    /\ universe = "aead"
    /\ proc = [p \in callers |-> IdleProc(NoSealed)]

InitConc ==
    /\ InitOneMachine
    /\ call = Idle
    /\ ret = NoRet
    /\ handle \in {x \in Handles : x.tagsize \in {4, 16}}
    /\ callers = {1, 2}
    /\ universe = "conc"
    /\ proc = [p \in callers |-> IdleProc(NoSealed)]

streamvars == <<call, ret>>

SealCall(p) ==
    /\ proc[p].pc = "idle"
    /\ \E in \in SealInputs(universe) :
          proc' = [proc EXCEPT ![p] =
                     [IdleProc(NoSealed) EXCEPT !.op = "Seal", !.pc = "validate",
                         !.dst = in.dst, !.nonce = in.nonce, !.in = in.pt,
                         !.ad = in.ad, !.mem = in.dst.arr]]
    /\ UNCHANGED <<handle, callers, universe, hwvars, streamvars>>

OpenCall(p) ==
    /\ proc[p].pc = "idle"
    /\ \E v \in OpenVariants(universe, proc[p].sealed) :
          proc' = [proc EXCEPT ![p] =
                     With(OpenArgs(v, proc[p].sealed, handle), LAMBDA in :
                        [IdleProc(proc[p].sealed) EXCEPT !.op = "Open",
                            !.pc = "validate", !.dst = in.dst, !.nonce = in.nonce,
                            !.in = in.in, !.ad = in.ad, !.mem = in.dst.arr])]
    /\ UNCHANGED <<handle, callers, universe, hwvars, streamvars>>

\* caller p's call takes the step f, which reads the handle and leaves it as it is
Step(p, op, pc, f(_, _)) ==
    /\ proc[p].op = op
    /\ proc[p].pc = pc
    /\ proc' = [proc EXCEPT ![p] = f(handle, proc[p])]
    /\ UNCHANGED <<handle, callers, universe, hwvars, streamvars>>

SealValidate(p) == Step(p, "Seal", "validate", SealValidateStep)

SealPolyKey(p) == Step(p, "Seal", "polykey", SealPolyKeyStep)

SealEncrypt(p) == Step(p, "Seal", "encrypt", SealEncryptStep)

\* a Seal that clears the key of the handle when it is done with it
SealAuthWipesKey(p) ==
    /\ proc[p].op = "Seal"
    /\ proc[p].pc = "auth"
    /\ proc' = [proc EXCEPT ![p] = SealAuthStep(handle, proc[p])]
    /\ handle' = [handle EXCEPT !.key = Zeros(32)]
    /\ UNCHANGED <<callers, universe, hwvars, streamvars>>

SealAuth(p) == Step(p, "Seal", "auth", SealAuthStep)

OpenValidate(p) == Step(p, "Open", "validate", OpenValidateStep)

OpenPolyKey(p) == Step(p, "Open", "polykey", OpenPolyKeyStep)

OpenVerify(p) == Step(p, "Open", "verify", OpenVerifyStep)

OpenDecrypt(p) == Step(p, "Open", "decrypt", OpenDecryptStep)

\* what the caller keeps of a call that is over
Kept(c) ==
    IF c.op = "Seal" /\ c.result.status = "returned"
    THEN [ok |-> TRUE, nonce |-> c.nonce, pt |-> c.in, ad |-> c.ad,
          out |-> Drop(c.result.ret, c.dst.len)]
    ELSE c.sealed

\* the caller takes the result (or recovers from the panic) and goes on
ReturnFrom(p) ==
    /\ proc[p].pc = "done"
    /\ proc' = [proc EXCEPT ![p] = IdleProc(Kept(proc[p]))]
    /\ UNCHANGED <<handle, callers, universe, hwvars, streamvars>>

NextAead ==
    \/ \E p \in callers : SealCall(p)
    \/ \E p \in callers : SealValidate(p)
    \/ \E p \in callers : SealPolyKey(p)
    \/ \E p \in callers : SealEncrypt(p)
    \/ \E p \in callers : SealAuth(p)
    \/ \E p \in callers : OpenCall(p)
    \/ \E p \in callers : OpenValidate(p)
    \/ \E p \in callers : OpenPolyKey(p)
    \/ \E p \in callers : OpenVerify(p)
    \/ \E p \in callers : OpenDecrypt(p)
    \/ \E p \in callers : ReturnFrom(p)

SpecAead == InitAead /\ [][NextAead]_vars

SpecConc == InitConc /\ [][NextAead]_vars

-----------------------------------------------------------------------------
(* Claims about XORKeyStream, NewCipher and the dispatcher *)

XksDone == call.op = "XORKeyStream" /\ ret.status = "ok"

\* the single keystream block of the call's state with counter c + b
RefBlock(b) ==
    KeystreamBlock(setState(call.key, call.nonce, Add32(call.counter, U32(b))),
                   call.rounds)

\* C5: XORKeyStream writes dst[i] = src[i] XOR K(c + floor(i/64) mod 2^32)[i mod 64]
\* for every i < len(src): the full blocks take counters c .. c+floor(L/64)-1 and
\* a partial tail takes exactly the next one, as a reference that generates one
\* block at a time does.
C5_MatchesReference ==
    XksDone =>
        With((Len(call.src) + 63) \div 64, LAMBDA nblocks :
        With(AsSeq([b \in 1..nblocks |-> RefBlock(b - 1)]), LAMBDA K :
            /\ \A i \in 0..(Len(call.src) - 1) :
                  ret.dst[i + 1] = Xor8(call.src[i + 1], K[(i \div 64) + 1][(i % 64) + 1])
            /\ ret.used = AsSeq([b \in 1..nblocks |-> Add32(call.counter, U32(b - 1))])
            /\ Len(ret.dst) = Len(call.dst)))

\* a call of 129 bytes from counter 0xFFFFFFFE has returned: two full blocks and a
\* tail whose counter has wrapped to 0
C5_Witness ==
    /\ XksDone
    /\ Len(call.src) = 129
    /\ call.counter = <<65534, 65535>>
    /\ ret.used = << <<65534, 65535>>, <<65535, 65535>>, <<0, 0>> >>

RoundsValid(r) == r > 0 /\ r % 2 = 0

NewCipherDone == call.op = "NewCipher" /\ ret # NoRet

\* C6 as claimed: NewCipher with a zero, negative or odd round count returns an
\* invalid-rounds error (recoverable, not an abort) and no handle; with an even
\* positive one, a handle whose counter is 0.
C6_Original ==
    NewCipherDone =>
        IF RoundsValid(call.rounds)
        THEN ret.status = "ok" /\ CounterOf(ret.cipher.state) = U32(0)
        ELSE ret.status = "error"

\* C6: NewCipher with a zero, negative or odd round count aborts (panics) with
\* the rounds message and yields no handle; with an even positive one it returns
\* a handle with that round count whose counter is 0.
C6_PanicsOnInvalidRounds ==
    NewCipherDone =>
        IF RoundsValid(call.rounds)
        THEN /\ ret.status = "ok"
             /\ ret.cipher.rounds = call.rounds
             /\ CounterOf(ret.cipher.state) = U32(0)
             /\ ret.cipher.state = setState(call.key, call.nonce, U32(0))
        ELSE /\ ret.status = "panic"
             /\ ret.msg = "chacha20/chacha: rounds must be a multiply of 2"
             /\ "cipher" \notin DOMAIN ret

C6_Witness ==
    /\ NewCipherDone
    /\ call.rounds = 3
    /\ ret.status = "panic"

\* the hardware supports SSSE3 / AVX2
HasSSSE3 == Bit(cx, 9) = 1

HasAVX2 == avx2 = 1

Dispatched == XksDone /\ Len(call.src) >= 64

\* C7 as claimed: the dispatcher runs the AVX2 variant when AVX2 is supported and
\* len(src) >= 128, otherwise the SSSE3 variant when SSSE3 is supported, otherwise
\* the SSE2 baseline.
C7_Original ==
    Dispatched =>
        ret.variant = IF HasAVX2 /\ Len(call.src) >= 128 THEN "AVX2"
                      ELSE IF HasSSSE3 THEN "SSSE3"
                      ELSE "SSE2"

\* C7: the dispatcher never runs the AVX2 variant, whatever the hardware and the
\* length (useAVX2 is false on every machine); it runs the SSSE3 variant when
\* SSSE3 is supported and the SSE2 baseline otherwise, and Core chooses the same
\* way for the tail block.
C7_NoAVX2 ==
    /\ useAVX2 = FALSE
    /\ Dispatched =>
          ret.variant = IF HasSSSE3 THEN "SSSE3" ELSE "SSE2"
    /\ (XksDone /\ Len(call.src) % 64 > 0) =>
          ret.core = IF HasSSSE3 THEN "SSSE3" ELSE "SSE2"

\* on AVX2 hardware a call of at least 128 bytes has run the SSSE3 variant
C7_Witness ==
    /\ Dispatched
    /\ HasAVX2
    /\ Len(call.src) >= 128
    /\ ret.variant = "SSSE3"

-----------------------------------------------------------------------------
(* Claims about authenticate *)

AuthDone == call.op = "authenticate" /\ ret # NoRet

\* (16 - n mod 16) mod 16 zero bytes
PadTo16(n) == Zeros((16 - (n % 16)) % 16)

\* the 8 little-endian bytes of a length below 2^32
LE64(n) ==
    <<n % 256, (n \div 256) % 256, (n \div 65536) % 256, (n \div 16777216) % 256,
      0, 0, 0, 0>>

\* C9: authenticate feeds the MAC exactly A, then (16 - len(A) mod 16) mod 16 zero
\* bytes, then C, then (16 - len(C) mod 16) mod 16 zero bytes, then the 8-byte
\* little-endian len(A), then the 8-byte little-endian len(C); the total is a
\* multiple of 16, and the tag is the MAC of these bytes under the key.
C9_MacInput ==
    AuthDone =>
        /\ ret.macin = call.additionalData \o PadTo16(Len(call.additionalData))
                       \o call.ciphertext \o PadTo16(Len(call.ciphertext))
                       \o LE64(Len(call.additionalData)) \o LE64(Len(call.ciphertext))
        /\ Len(ret.macin) % 16 = 0
        /\ ret.tag = Poly1305Sum(call.key, ret.macin)

\* authenticate has run on 16 bytes of associated data (no padding) and 257 bytes
\* of ciphertext (15 bytes of padding, a length of two non-zero bytes)
C9_Witness ==
    /\ AuthDone
    /\ Len(call.additionalData) = 16
    /\ Len(call.ciphertext) = 257
    /\ Len(ret.macin) = 16 + 272 + 16

-----------------------------------------------------------------------------
(* Claims about Seal and Open *)

SealDone(p) == proc[p].op = "Seal" /\ proc[p].pc = "done"

OpenDone(p) == proc[p].op = "Open" /\ proc[p].pc = "done"

\* caller p's Open was given what its last Seal returned, with the same nonce
\* and associated data
OpensSealed(p) ==
    /\ proc[p].op = "Open"
    /\ proc[p].sealed.ok
    /\ proc[p].nonce = proc[p].sealed.nonce
    /\ proc[p].in = proc[p].sealed.out
    /\ proc[p].ad = proc[p].sealed.ad

\* C1: for every 12-byte nonce, associated data, plaintext and tag size t in 1..16,
\* Seal appends exactly len(plaintext)+t bytes to dst, and Open of that output with
\* the same nonce and associated data succeeds and returns exactly the plaintext.
C1_RoundTrip ==
    \A p \in callers :
        /\ (SealDone(p) /\ Len(proc[p].nonce) = NonceSize) =>
              /\ proc[p].result.status = "returned"
              /\ Len(proc[p].result.ret)
                    = proc[p].dst.len + Len(proc[p].in) + handle.tagsize
              /\ Take(proc[p].result.ret, proc[p].dst.len)
                    = Take(proc[p].dst.arr, proc[p].dst.len)
        /\ (OpenDone(p) /\ OpensSealed(p)) =>
              /\ proc[p].result.err = "nil"
              /\ ~proc[p].result.retNil
              /\ Drop(proc[p].result.ret, proc[p].dst.len) = proc[p].sealed.pt

\* with a 1-byte tag, Open has returned the 65 bytes that were sealed
C1_Witness ==
    \E p \in callers :
        /\ OpenDone(p)
        /\ OpensSealed(p)
        /\ handle.tagsize = 1
        /\ Len(proc[p].sealed.pt) = 65
        /\ Len(proc[p].sealed.out) = 66
        /\ proc[p].result.err = "nil"

\* caller p's call has XORed keystream with its message
Crypted(p) == \E i \in 1..Len(proc[p].ks) : proc[p].ks[i].use = "msg"

\* C2: in Open the tag comparison completes and its result is checked before any
\* decryption step runs; on every failing Open no keystream is XORed with the
\* ciphertext, no byte of the caller's dst buffer is written, and the returned
\* plaintext is nil.
C2_VerifyBeforeDecrypt ==
    \A p \in callers :
        proc[p].op = "Open" =>
            /\ Crypted(p) => proc[p].cmp = 1
            /\ proc[p].pc = "decrypt" => proc[p].cmp = 1
            /\ proc[p].cmp # 1 => proc[p].mem = proc[p].dst.arr /\ proc[p].head = <<>>
            /\ (proc[p].pc = "done" /\ proc[p].result.err # "nil") =>
                  /\ ~Crypted(p)
                  /\ proc[p].mem = proc[p].dst.arr
                  /\ proc[p].result.retNil
                  /\ proc[p].result.ret = <<>>

\* an Open into a dst with spare capacity has failed on a tag that does not match
C2_Witness ==
    \E p \in callers :
        /\ OpenDone(p)
        /\ proc[p].cmp = 0
        /\ Len(proc[p].dst.arr) >= proc[p].dst.len + Len(proc[p].in)
        /\ proc[p].result.err = errAuthFailed

\* the first tagsize bytes of the tag of the leading n bytes and the associated
\* data, under the MAC key that the block with counter 0 gives
ExpectedTag(h, c, n) ==
    With(Take(KeystreamBlock(setState(h.key, c.nonce, U32(0)), 20), 32), LAMBDA k :
        Take(Poly1305Sum(k, MacWrites(Take(c.in, n), c.ad)), h.tagsize))

TagMatches(h, c) ==
    /\ Len(c.in) >= h.tagsize
    /\ Drop(c.in, Len(c.in) - h.tagsize) = ExpectedTag(h, c, Len(c.in) - h.tagsize)

\* C3: for a 12-byte nonce, Open succeeds if and only if len(sealedInput) >= tagsize
\* and its last tagsize bytes equal the first tagsize bytes of the tag recomputed
\* over the leading bytes and the associated data; in every other case it returns
\* the one authentication-failed error, for a too-short input as for a mismatch.
C3_OpenIffTagMatches ==
    \A p \in callers :
        (OpenDone(p) /\ Len(proc[p].nonce) = NonceSize) =>
            IF TagMatches(handle, proc[p])
            THEN proc[p].result.err = "nil" /\ ~proc[p].result.retNil
            ELSE proc[p].result.err = errAuthFailed /\ proc[p].result.retNil

\* an Open of an input shorter than the tag has failed with authentication-failed
C3_Witness ==
    \E p \in callers :
        /\ OpenDone(p)
        /\ Len(proc[p].nonce) = NonceSize
        /\ handle.tagsize > 1
        /\ Len(proc[p].in) = handle.tagsize - 1
        /\ proc[p].result.err = errAuthFailed

\* C4 as claimed: Seal with a nonce whose length is not 12 fails with the
\* invalid-nonce-size error, returned to the caller as Open returns it, and
\* produces no partial output.
C4_Original ==
    \A p \in callers :
        (SealDone(p) /\ Len(proc[p].nonce) # NonceSize) =>
            /\ proc[p].result.status = "returned"
            /\ proc[p].result.err = errInvalidNonceSize
            /\ proc[p].mem = proc[p].dst.arr

\* C4: Seal with a nonce whose length is not 12 aborts (panics) with the
\* invalid-nonce-size message, before any keystream is generated and with no byte
\* of dst written and nothing returned; Open with such a nonce returns the
\* invalid-nonce-size error and a nil plaintext.
C4_SealPanicsOnNonce ==
    \A p \in callers :
        /\ (SealDone(p) /\ Len(proc[p].nonce) # NonceSize) =>
              /\ proc[p].result = Panic("chacha20: nonce size is invalid")
              /\ proc[p].mem = proc[p].dst.arr
              /\ proc[p].head = <<>>
              /\ proc[p].ks = <<>>
        /\ (OpenDone(p) /\ Len(proc[p].nonce) # NonceSize) =>
              /\ proc[p].result = Returned(<<>>, TRUE, errInvalidNonceSize)
              /\ proc[p].mem = proc[p].dst.arr
              /\ proc[p].ks = <<>>

\* a Seal with a 13-byte nonce has panicked
C4_Witness ==
    \E p \in callers :
        /\ SealDone(p)
        /\ Len(proc[p].nonce) = 13
        /\ proc[p].result.status = "panic"

\* the length of the message of caller p's call
MessageLen(p) ==
    IF proc[p].op = "Seal" THEN Len(proc[p].in) ELSE Len(proc[p].in) - handle.tagsize

\* C10: within one Seal or Open call the keystream block with counter 0 is used
\* only to derive the MAC key, and the blocks XORed with the message have the
\* counters 1, 2, ..., ceil(len/64): no counter serves both.
C10_KeySeparation ==
    \A p \in callers : \A i \in 1..Len(proc[p].ks) :
        /\ proc[p].ks[i].use = "mackey" =>
              i = 1 /\ proc[p].ks[i].counters = <<U32(0)>>
        /\ proc[p].ks[i].use = "msg" =>
              /\ i = 2
              /\ proc[p].ks[i].counters
                    = AsSeq([b \in 1..((MessageLen(p) + 63) \div 64) |-> U32(b)])
              /\ \A b \in 1..Len(proc[p].ks[i].counters) :
                    proc[p].ks[i].counters[b] # U32(0)
        /\ (/\ proc[p].pc = "done"
            /\ proc[p].result.status = "returned"
            /\ ~proc[p].result.retNil) => Len(proc[p].ks) = 2

\* a Seal of 65 bytes has used counter 0 for the MAC key and 1, 2 for the message
C10_Witness ==
    \E p \in callers :
        /\ SealDone(p)
        /\ Len(proc[p].in) = 65
        /\ proc[p].ks = << [use |-> "mackey", counters |-> <<U32(0)>>],
                           [use |-> "msg", counters |-> <<U32(1), U32(2)>>] >>

-----------------------------------------------------------------------------
(* Claims about concurrent callers of one handle *)

\* the call of c as it is when it starts
Started(c) ==
    [IdleProc(c.sealed) EXCEPT !.op = c.op, !.pc = "validate", !.dst = c.dst,
        !.nonce = c.nonce, !.in = c.in, !.ad = c.ad, !.mem = c.dst.arr]

\* the next step of the call c on the handle h
StepAlone(h, c) ==
    IF c.op = "Seal"
    THEN CASE c.pc = "validate" -> SealValidateStep(h, c)
           [] c.pc = "polykey" -> SealPolyKeyStep(h, c)
           [] c.pc = "encrypt" -> SealEncryptStep(h, c)
           [] c.pc = "auth" -> SealAuthStep(h, c)
    ELSE CASE c.pc = "validate" -> OpenValidateStep(h, c)
           [] c.pc = "polykey" -> OpenPolyKeyStep(h, c)
           [] c.pc = "verify" -> OpenVerifyStep(h, c)
           [] c.pc = "decrypt" -> OpenDecryptStep(h, c)

RECURSIVE RunAlone(_, _)
\* the call c run from where it is to its end with nothing else running
RunAlone(h, c) ==
    IF c.pc = "done" THEN c ELSE With(StepAlone(h, c), LAMBDA d : RunAlone(h, d))

SameArguments(c, d) ==
    /\ c.op = d.op
    /\ c.dst = d.dst
    /\ c.nonce = d.nonce
    /\ c.in = d.in
    /\ c.ad = d.ad

\* C8: no step of Seal or Open changes the handle's key or tag size; a call that
\* finishes while other calls on the same handle are in progress ends with the
\* result, the dst bytes and the keystream use of the same call run alone; and two
\* Seal calls with identical nonce, plaintext and associated data return identical
\* bytes.
C8_ConcurrentCalls ==
    [][ /\ handle' = handle
        /\ \A p \in callers :
              (proc[p].pc # "done" /\ proc'[p].pc = "done") =>
                  With(Started(proc[p]), LAMBDA c : proc'[p] = RunAlone(handle', c))
        /\ \A p, q \in callers :
              (/\ proc'[p].pc = "done"
               /\ proc'[q].pc = "done"
               /\ proc'[p].op = "Seal"
               /\ SameArguments(proc'[p], proc'[q])) =>
                  proc'[p].result = proc'[q].result ]_vars

\* two callers have each finished a Seal of the same input on the one handle,
\* neither has returned yet, and both hold the same sealed bytes
C8_Witness ==
    \E p, q \in callers :
        /\ p # q
        /\ SealDone(p)
        /\ SealDone(q)
        /\ SameArguments(proc[p], proc[q])
        /\ proc[p].result.status = "returned"
        /\ Len(proc[p].result.ret) = Len(proc[p].in) + handle.tagsize
        /\ proc[p].result = proc[q].result

=============================================================================
